---------------------------- MODULE Spec2Model ----------------------------
(***************************************************************************)
(* Model of generate_massive_wordlists.py: the wordlist generator that     *)
(* expands literal words into 8-character seeds.                           *)
(*                                                                         *)
(* A Python str is a sequence of one-character strings, so "MUD" is        *)
(* <<"M","U","D">>.  A Python set is a TLA+ set.                           *)
(***************************************************************************)
EXTENDS Integers, Sequences, FiniteSets, TLC

(***************************************************************************)
(* Characters                                                              *)
(***************************************************************************)
VALID_CHARS ==
  <<"1","2","3","4","5","6","7","8","9","A","B","C","D","E","F","G","H","I",
    "J","K","L","M","N","O","P","Q","R","S","T","U","V","W","X","Y","Z">>

\* Code-point order of the characters the model uses ('-' < '0' < ... < 'z').
CodePoints ==
  <<"-","0","1","2","3","4","5","6","7","8","9","A","B","C","D","E","F","G",
    "H","I","J","K","L","M","N","O","P","Q","R","S","T","U","V","W","X","Y",
    "Z","a","b","c","d","e","f","g","h","i","j","k","l","m","n","o","p","q",
    "r","s","t","u","v","w","x","y","z">>

LowerCase ==
  <<"a","b","c","d","e","f","g","h","i","j","k","l","m","n","o","p","q","r",
    "s","t","u","v","w","x","y","z">>

UpperCase ==
  <<"A","B","C","D","E","F","G","H","I","J","K","L","M","N","O","P","Q","R",
    "S","T","U","V","W","X","Y","Z">>

Range(s) == {s[k] : k \in DOMAIN s}

\* c in VALID_CHARS
InValidChars(c) == c \in Range(VALID_CHARS)

\* ord(c)
Ord == [c \in Range(CodePoints) |->
          CHOOSE k \in DOMAIN CodePoints : CodePoints[k] = c]

\* str.upper() on one character
UpperChar == [c \in Range(CodePoints) |->
                IF c \in Range(LowerCase)
                  THEN UpperCase[CHOOSE k \in DOMAIN LowerCase : LowerCase[k] = c]
                  ELSE c]

\* word.upper()
Upper(word) == [k \in DOMAIN word |-> UpperChar[word[k]]]

\* c * n  (an empty string when n <= 0)
Repeat(c, n) == IF n <= 0 THEN <<>> ELSE [k \in 1..n |-> c]

\* s[:n]
Take(s, n) == IF Len(s) <= n THEN s ELSE SubSeq(s, 1, n)

\* a < b on str: the first differing character decides, a proper prefix is
\* smaller.
LexLess(a, b) ==
  LET Common == {k \in 1..Len(a) : k <= Len(b)}
      Diff   == {k \in Common : a[k] # b[k]}
  IN  IF Diff = {}
        THEN Len(a) < Len(b)
        ELSE LET d == CHOOSE k \in Diff : \A m \in Diff : k <= m
             IN  Ord[a[d]] < Ord[b[d]]

\* The first position at which the strings of S (at least two) stop agreeing
FirstDiff(S) ==
  LET e == CHOOSE x \in S : TRUE
      Differs(k) == \E y \in S : Len(y) < k \/ Len(e) < k \/ y[k] # e[k]
  IN  CHOOSE k \in 1..(Len(e) + 1) :
        Differs(k) /\ \A m \in 1..(k - 1) : ~Differs(m)

\* sorted(S) for a set of str: the string that ends where the others go on
\* comes first, then the strings are split by the code point of their first
\* differing character.
RECURSIVE Sorted(_)
Sorted(S) ==
  IF Cardinality(S) <= 1 THEN [k \in 1..Cardinality(S) |-> CHOOSE x \in S : TRUE]
  ELSE LET d     == FirstDiff(S)
           ended == {x \in S : Len(x) < d}
           ranks == {Ord[x[d]] : x \in S \ ended}
           lo    == CHOOSE r \in ranks : \A q \in ranks : r <= q
           hi    == CHOOSE r \in ranks : \A q \in ranks : q <= r
           low   == {x \in S : Ord[x[d]] <= (lo + hi) \div 2}
       IN  IF ended # {}
             THEN Sorted(ended) \o Sorted(S \ ended)
             ELSE Sorted(low) \o Sorted(S \ low)

(***************************************************************************)
(* Iteration order of a set of str.  CPython derives it from the string    *)
(* hashes, which are salted per process (PYTHONHASHSEED), so the order is  *)
(* fixed inside one execution and differs between executions.  The model   *)
(* represents the salt by a number and the order it induces by the sorted  *)
(* order rotated by that number.                                           *)
(***************************************************************************)
MaxSeed == 1

HashSeeds == 0..MaxSeed

ListOf(S, seed) ==
  LET s == Sorted(S)
      n == Len(s)
  IN  IF n = 0 THEN <<>>
      ELSE [k \in 1..n |-> s[((k - 1 + seed) % n) + 1]]

(***************************************************************************)
(* Padding tables                                                          *)
(***************************************************************************)
POPULAR_NUMS ==
  <<
     <<"6","9">>, <<"4","2">>, <<"6","6","6">>, <<"7","7","7">>,
     <<"8","8","8">>, <<"9","9","9">>, <<"1","2","3">>, <<"3","2","1">>,
     <<"1","1","1">>, <<"2","2","2">>, <<"3","3","3">>, <<"4","4","4">>,
     <<"5","5","5">>, <<"1","3","3","7">>, <<"9","9","9","9">>,
     <<"8","8","8","8">>, <<"7","7","7","7">>, <<"1","2","3","4">>,
     <<"4","3","2","1">>, <<"2","2","2","2">>, <<"3","3","3","3">>,
     <<"4","4","4","4">>, <<"5","5","5","5">>, <<"6","6","6","6">>,
     <<"1","1","1","1">>
  >>

\* for filler in ['1', '9', 'X', 'Z']
fillers == <<"1","9","X","Z">>

\* for pad_char in ['1', ..., '9', 'X', 'Z', 'Q']
pad_chars == <<"1","2","3","4","5","6","7","8","9","X","Z","Q">>

\* The default of the parameter max_results
max_results_default == 200

\* Variant: a lower cap (a tenth of the default)
max_results_low == max_results_default \div 10

\* max_results: int = 200
max_results == max_results_default

(***************************************************************************)
(* generate_padded_combinations                                            *)
(***************************************************************************)
\* word.upper(), then ''.join(c for c in word if c in VALID_CHARS)
Normalize(word) == SelectSeq(Upper(word), InValidChars)

\* One iteration of "for num in POPULAR_NUMS" for a normalized word shorter
\* than 8.
NumberPadding(word, num) ==
  LET needed    == 8 - Len(word)
      remaining == 8 - Len(word) - Len(num)
      AtEnd   == IF Len(word \o num) <= 8
                   THEN IF remaining = 0 THEN {word \o num}
                        ELSE IF remaining > 0
                          THEN {word \o num \o Repeat(fillers[f], remaining)
                                  : f \in DOMAIN fillers}
                          ELSE {}
                   ELSE {}
      AtStart == IF Len(num \o word) <= 8
                   THEN IF remaining = 0 THEN {num \o word}
                        ELSE IF remaining > 0
                          THEN {num \o word \o Repeat(fillers[f], remaining)
                                  : f \in DOMAIN fillers}
                          ELSE {}
                   ELSE {}
  IN  IF Len(num) <= needed THEN AtEnd \cup AtStart ELSE {}

\* Variant: only the last character is repeated
CharRepetition_lastonly(word) ==
  LET needed == 8 - Len(word)
  IN  { word \o Repeat(word[Len(word)], needed) }

\* Character repetition: word + word[-1] * needed, word[0] * needed + word
CharRepetition(word) ==
  LET needed == 8 - Len(word)
  IN  { word \o Repeat(word[Len(word)], needed),
        Repeat(word[1], needed) \o word }

\* Simple padding: word + pad_char * needed
SimplePadding(word) ==
  LET needed == 8 - Len(word)
  IN  {word \o Repeat(pad_chars[p], needed) : p \in DOMAIN pad_chars}

\* The set "results" just before the limit, for a normalized word of length
\* 1..7.
PaddingCandidates(word) ==
  UNION {NumberPadding(word, POPULAR_NUMS[n]) : n \in DOMAIN POPULAR_NUMS}
    \cup CharRepetition(word) \cup SimplePadding(word)

\* Variant: the slice is missing
Limit_nocap(results, seed) == results

\* set(list(results)[:max_results])
Limit(results, seed) ==
  IF Cardinality(results) <= max_results THEN results
  ELSE LET l == ListOf(results, seed)
       IN  {l[k] : k \in 1..max_results}

generate_padded_combinations(word, seed) ==
  LET w == Normalize(word)
  IN  IF w = <<>> \/ Len(w) > 8 THEN {}
      ELSE IF Len(w) = 8 THEN {w}
      ELSE Limit(PaddingCandidates(w), seed)

(***************************************************************************)
(* generate_leet_variations                                                *)
(***************************************************************************)
\* leet_map, in the insertion order its items() are iterated in
leet_map ==
  << <<"A","4">>, <<"E","3">>, <<"I","1">>, <<"O","0">>, <<"S","5">>,
     <<"T","7">>, <<"G","6">>, <<"B","8">>, <<"L","1">> >>

\* word.replace(char, leet) for one-character char and leet
Replace(word, char, leet) ==
  [k \in DOMAIN word |-> IF word[k] = char THEN leet ELSE word[k]]

\* Variant: the replacement is not checked against VALID_CHARS
LeetApplies_nocheck(word, char, leet) == char \in Range(word)

\* if char in word and leet in VALID_CHARS
LeetApplies(word, char, leet) ==
  char \in Range(word) /\ InValidChars(leet)

RECURSIVE LeetFrom(_, _, _)
LeetFrom(word, variations, k) ==
  IF k > Len(leet_map) THEN variations
  ELSE LeetFrom(word,
                IF LeetApplies(word, leet_map[k][1], leet_map[k][2])
                  THEN Append(variations,
                              Replace(word, leet_map[k][1], leet_map[k][2]))
                  ELSE variations,
                k + 1)

generate_leet_variations(word) == LeetFrom(word, <<word>>, 1)

(***************************************************************************)
(* generate_word_combinations, phase by phase                              *)
(***************************************************************************)
\* Body of "for word in words": the padded versions of the word and of each
\* of its leet variations; a word of more than 8 characters is skipped.
WordSeeds(word, seed) ==
  IF Len(word) > 8 THEN {}
  ELSE generate_padded_combinations(word, seed)
         \cup UNION {generate_padded_combinations(v, seed)
                       : v \in Range(generate_leet_variations(word))}

number_patterns ==
  <<
     <<"6","9","6","9","6","9","6","9">>, <<"4","2","4","2","4","2","4","2">>,
     <<"6","6","6","6","6","6","6","6">>, <<"7","7","7","7","7","7","7","7">>,
     <<"8","8","8","8","8","8","8","8">>, <<"9","9","9","9","9","9","9","9">>,
     <<"1","2","3","4","5","6","7","8">>, <<"8","7","6","5","4","3","2","1">>,
     <<"1","1","1","1","1","1","1","1">>, <<"2","2","2","2","2","2","2","2">>,
     <<"3","3","3","3","3","3","3","3">>, <<"4","4","4","4","4","4","4","4">>,
     <<"5","5","5","5","5","5","5","5">>, <<"1","3","3","7","1","3","3","7">>,
     <<"4","2","6","9","4","2","6","9">>, <<"6","9","4","2","6","9","4","2">>,
     <<"1","1","2","2","3","3","4","4">>, <<"4","4","3","3","2","2","1","1">>,
     <<"1","2","1","2","1","2","1","2">>, <<"2","1","2","1","2","1","2","1">>,
     <<"1","3","1","3","1","3","1","3">>, <<"3","1","3","1","3","1","3","1">>,
     <<"1","4","1","4","1","4","1","4">>, <<"4","1","4","1","4","1","4","1">>,
     <<"6","9","6","9","6","9","4","2">>, <<"4","2","4","2","4","2","6","9">>,
     <<"6","9","6","9","4","2","4","2">>, <<"4","2","4","2","6","9","6","9">>,
     <<"1","3","3","7","6","9","6","9">>, <<"6","9","6","9","1","3","3","7">>,
     <<"4","2","4","2","1","3","3","7">>, <<"1","3","3","7","4","2","4","2">>,
     <<"6","6","6","6","9","9","9","9">>, <<"9","9","9","9","6","6","6","6">>,
     <<"7","7","7","7","8","8","8","8">>, <<"8","8","8","8","7","7","7","7">>,
     <<"1","2","3","4","4","3","2","1">>, <<"4","3","2","1","1","2","3","4">>,
     <<"1","1","1","1","9","9","9","9">>, <<"9","9","9","9","1","1","1","1">>,
     <<"6","6","6","6","4","2","4","2">>, <<"4","2","4","2","6","6","6","6">>,
     <<"6","9","9","9","7","7","7","7">>, <<"7","7","7","7","6","9","9","9">>,
     <<"8","8","8","8","4","2","4","2">>, <<"4","2","4","2","8","8","8","8">>,
     <<"9","9","9","9","4","2","4","2">>, <<"4","2","4","2","9","9","9","9">>
  >>

\* Variant: only the length is checked
IsValidSeed_lenonly(s) == Len(s) = 8

\* len(s) == 8 and all(c in VALID_CHARS for c in s)
IsValidSeed(s) == Len(s) = 8 /\ \A k \in DOMAIN s : InValidChars(s[k])

\* Variant: the character test is inverted
PatternSeeds_inverted ==
  {number_patterns[k] : k \in {m \in DOMAIN number_patterns :
       /\ Len(number_patterns[m]) = 8
       /\ \E c \in Range(number_patterns[m]) : ~InValidChars(c)}}

\* "for pattern in number_patterns": the patterns that are added
PatternSeeds ==
  {number_patterns[k] : k \in {m \in DOMAIN number_patterns :
                                 IsValidSeed(number_patterns[m])}}

\* words[:50]
PairLimit == 50

\* Body of the two nested loops over words[:50]
PairOf(word1, word2, seed) ==
  LET combined == word1 \o word2
  IN  IF Len(word1) + Len(word2) <= 8
        THEN IF Len(combined) < 8
               THEN generate_padded_combinations(combined, seed)
               ELSE IF Len(combined) = 8 THEN {combined} ELSE {}
        ELSE {}

PairSeeds(words, seed) ==
  LET first == Take(words, PairLimit)
  IN  UNION {PairOf(first[a], first[b], seed)
               : a \in DOMAIN first, b \in DOMAIN first}

\* for num in ["69", "42", "666", "777", "888", "999", "123", "321", "111"]
combo_nums ==
  << <<"6","9">>, <<"4","2">>, <<"6","6","6">>, <<"7","7","7">>,
     <<"8","8","8">>, <<"9","9","9">>, <<"1","2","3">>, <<"3","2","1">>,
     <<"1","1","1">> >>

\* The four arrangements of one word with one number
WordNumOf(word, num) ==
  LET slack == 8 - Len(word) - Len(num)
  IN  { Take(word \o num \o Repeat("1", slack), 8),
        Take(num \o word \o Repeat("1", slack), 8),
        Take(word \o num \o Repeat("X", slack), 8),
        Take(num \o word \o Repeat("Z", slack), 8) }

\* Variant: the length test is missing
WordNumSeeds_nolen(words) ==
  UNION {WordNumOf(words[k], combo_nums[n])
           : k \in DOMAIN words, n \in DOMAIN combo_nums}

\* Body of "for word in words: for num in [...]"
WordNumSeeds(words) ==
  UNION {IF Len(words[k]) + Len(combo_nums[n]) <= 8
           THEN WordNumOf(words[k], combo_nums[n])
           ELSE {}
           : k \in DOMAIN words, n \in DOMAIN combo_nums}

\* valid_seeds = [s for s in all_seeds if ...], in the set's iteration order
FilterValid(seeds, seed) == SelectSeq(ListOf(seeds, seed), IsValidSeed)

\* Variant: the list is left as filtered
SortList_none(l) == l

\* valid_seeds.sort()
SortList(l) == SortSeq(l, LexLess)

\* The lines a whole call writes, as a function of its word list and of the
\* execution's hash seed.
generate_word_combinations(words, seed) ==
  SortList(FilterValid(
      UNION {WordSeeds(words[k], seed) : k \in DOMAIN words}
        \cup PatternSeeds
        \cup PairSeeds(words, seed)
        \cup WordNumSeeds(words),
      seed))

(***************************************************************************)
(* Inputs                                                                  *)
(***************************************************************************)
MUD       == <<"M","U","D">>
GAME      == <<"G","A","M","E">>
joker     == <<"j","o","k","e","r">>
PHOENIX   == <<"P","H","O","E","N","I","X">>
OMEGALUL  == <<"O","M","E","G","A","L","U","L">>
OMEGA_LUL == <<"O","M","E","G","A","-","L","U","L">>
DISCHARGE == <<"D","I","S","C","H","A","R","G","E">>
ZeroZero  == <<"0","0">>

\* Category words: a short word that reaches the limit, a lowercase word,
\* a word with leet letters, an 8-character word, a 9-character word that
\* normalizes to 8 characters, a 9-character word, a word of no valid
\* character.
Words == {MUD, joker, PHOENIX, OMEGALUL, OMEGA_LUL, DISCHARGE, ZeroZero}

MaxWords == 2

\* A category of more than 50 words: 50 over-length words, then a short one.
LongList == [k \in 1..(PairLimit + 1) |-> IF k <= PairLimit THEN DISCHARGE ELSE MUD]

WordLists == UNION {[1..n -> Words] : n \in 0..MaxWords} \cup {LongList}

\* Arguments of generate_padded_combinations
PadWords ==
  Words \cup {GAME, <<"g","a","m","e">>, <<"X">>, <<"G","G">>, <<"1","1","1">>,
              <<"G","0","D">>, <<"R","O","Y","A","L">>,
              <<"S","T","I","C","K","Y">>, <<>>}

\* Arguments of generate_leet_variations: words of valid characters
MaxLeetLen == 2

LeetChars == {"A", "O", "L", "I", "X", "7"}

LeetWords ==
  UNION {[1..n -> LeetChars] : n \in 1..MaxLeetLen}
    \cup {GAME, MUD, PHOENIX, OMEGALUL, <<"B","E","S","T">>,
          <<"G","L","I","T","C","H">>}

(***************************************************************************)
(* State                                                                   *)
(***************************************************************************)
VARIABLES
  words,       \* the category's word list
  run,         \* which execution of the program this is (1 or 2)
  hashseed,    \* the execution's string-hash seed
  pc,          \* position in generate_word_combinations
  i,           \* index of the next word of "for word in words"
  all_seeds,   \* the set all_seeds
  written,     \* written[r]: the lines execution r wrote to the output file
  returned,    \* returned[r]: the count execution r returned (-1: not yet)
  p_arg,       \* generate_padded_combinations: the argument word
  p_seed,      \* ... the hash seed of the execution it runs in
  p_pc,        \* ... position
  word,        \* ... the local "word" after normalization
  results,     \* ... the local set "results" (at "return": the value returned)
  p_n,         \* ... index of the next num of "for num in POPULAR_NUMS"
  l_word,      \* generate_leet_variations: the argument word
  l_pc,        \* ... position
  l_k,         \* ... index of the next item of leet_map
  variations   \* ... the local list "variations"

mainVars == <<words, run, hashseed, pc, i, all_seeds, written, returned>>
padVars  == <<p_arg, p_seed, p_pc, word, results, p_n>>
leetVars == <<l_word, l_pc, l_k, variations>>
vars     == <<mainVars, padVars, leetVars>>

MainIdle ==
  /\ words = <<>> /\ run = 1 /\ hashseed = 0 /\ pc = "off" /\ i = 1
  /\ all_seeds = {} /\ written = [r \in 1..2 |-> <<>>]
  /\ returned = [r \in 1..2 |-> -1]

PadIdle ==
  /\ p_arg = <<>> /\ p_seed = 0 /\ p_pc = "off" /\ word = <<>>
  /\ results = {} /\ p_n = 1

LeetIdle ==
  /\ l_word = <<>> /\ l_pc = "off" /\ l_k = 1 /\ variations = <<>>

(***************************************************************************)
(* generate_word_combinations(words, ...), executed twice on the same      *)
(* word list, each execution with its own hash seed                        *)
(***************************************************************************)
Init ==
  /\ words \in WordLists
  /\ run = 1 /\ hashseed = 0 /\ pc = "start" /\ i = 1 /\ all_seeds = {}
  /\ written = [r \in 1..2 |-> <<>>]
  /\ returned = [r \in 1..2 |-> -1]
  /\ PadIdle /\ LeetIdle

\* all_seeds = set()
Start ==
  /\ pc = "start"
  /\ \E s \in HashSeeds : hashseed' = s
  /\ all_seeds' = {}
  /\ i' = 1
  /\ pc' = "words"
  /\ UNCHANGED <<words, run, written, returned, padVars, leetVars>>

\* One iteration of "for word in words"
WordStep ==
  /\ pc = "words" /\ i <= Len(words)
  /\ all_seeds' = all_seeds \cup WordSeeds(words[i], hashseed)
  /\ i' = i + 1
  /\ UNCHANGED <<words, run, hashseed, pc, written, returned, padVars, leetVars>>

\* "for pattern in number_patterns"
AddPatterns ==
  /\ pc = "words" /\ i > Len(words)
  /\ all_seeds' = all_seeds \cup PatternSeeds
  /\ pc' = "pairs"
  /\ UNCHANGED <<words, run, hashseed, i, written, returned, padVars, leetVars>>

\* "for word1 in words[:50]: for word2 in words[:50]"
AddPairs ==
  /\ pc = "pairs"
  /\ all_seeds' = all_seeds \cup PairSeeds(words, hashseed)
  /\ pc' = "nums"
  /\ UNCHANGED <<words, run, hashseed, i, written, returned, padVars, leetVars>>

\* "for word in words: for num in [...]"
AddWordNums ==
  /\ pc = "nums"
  /\ all_seeds' = all_seeds \cup WordNumSeeds(words)
  /\ pc' = "filter"
  /\ UNCHANGED <<words, run, hashseed, i, written, returned, padVars, leetVars>>

\* Filter, sort, write the file, return len(valid_seeds)
WriteFile ==
  /\ pc = "filter"
  /\ LET valid_seeds == SortList(FilterValid(all_seeds, hashseed))
     IN  /\ written' = [written EXCEPT ![run] = valid_seeds]
         /\ returned' = [returned EXCEPT ![run] = Len(valid_seeds)]
  /\ pc' = "done"
  /\ UNCHANGED <<words, run, hashseed, i, all_seeds, padVars, leetVars>>

\* The program is executed again with unchanged word lists
RunAgain ==
  /\ pc = "done" /\ run = 1
  /\ run' = 2
  /\ pc' = "start"
  /\ UNCHANGED <<words, hashseed, i, all_seeds, written, returned, padVars, leetVars>>

Next ==
  \/ Start \/ WordStep \/ AddPatterns \/ AddPairs \/ AddWordNums
  \/ WriteFile \/ RunAgain

Spec == Init /\ [][Next]_vars

(***************************************************************************)
(* generate_padded_combinations(p_arg), step by step                       *)
(***************************************************************************)
PadInit ==
  /\ p_arg \in PadWords /\ p_seed \in HashSeeds
  /\ p_pc = "start" /\ word = p_arg /\ results = {} /\ p_n = 1
  /\ MainIdle /\ LeetIdle

\* Normalization and the two early returns
PadNormalize ==
  /\ p_pc = "start"
  /\ word' = Normalize(word)
  /\ IF word' = <<>> \/ Len(word') > 8
       THEN results' = {} /\ p_pc' = "return"
       ELSE IF Len(word') = 8
         THEN results' = {word'} /\ p_pc' = "return"
         ELSE results' = {} /\ p_pc' = "nums"
  /\ UNCHANGED <<p_arg, p_seed, p_n, mainVars, leetVars>>

\* One iteration of "for num in POPULAR_NUMS"
PadNumber ==
  /\ p_pc = "nums" /\ p_n <= Len(POPULAR_NUMS)
  /\ results' = results \cup NumberPadding(word, POPULAR_NUMS[p_n])
  /\ p_n' = p_n + 1
  /\ UNCHANGED <<p_arg, p_seed, p_pc, word, mainVars, leetVars>>

PadRepetition ==
  /\ p_pc = "nums" /\ p_n > Len(POPULAR_NUMS)
  /\ results' = results \cup CharRepetition(word)
  /\ p_pc' = "simple"
  /\ UNCHANGED <<p_arg, p_seed, word, p_n, mainVars, leetVars>>

PadSimple ==
  /\ p_pc = "simple"
  /\ results' = results \cup SimplePadding(word)
  /\ p_pc' = "limit"
  /\ UNCHANGED <<p_arg, p_seed, word, p_n, mainVars, leetVars>>

\* return set(list(results)[:max_results])
PadLimit ==
  /\ p_pc = "limit"
  /\ results' = Limit(results, p_seed)
  /\ p_pc' = "return"
  /\ UNCHANGED <<p_arg, p_seed, word, p_n, mainVars, leetVars>>

PadNext == PadNormalize \/ PadNumber \/ PadRepetition \/ PadSimple \/ PadLimit

SpecPad == PadInit /\ [][PadNext]_vars

(***************************************************************************)
(* generate_leet_variations(l_word), step by step                          *)
(***************************************************************************)
LeetInit ==
  /\ l_word \in LeetWords
  /\ l_pc = "loop" /\ l_k = 1 /\ variations = <<l_word>>
  /\ MainIdle /\ PadIdle

\* One iteration of "for char, leet in leet_map.items()"
LeetStep ==
  /\ l_pc = "loop" /\ l_k <= Len(leet_map)
  /\ variations' =
       IF LeetApplies(l_word, leet_map[l_k][1], leet_map[l_k][2])
         THEN Append(variations,
                     Replace(l_word, leet_map[l_k][1], leet_map[l_k][2]))
         ELSE variations
  /\ l_k' = l_k + 1
  /\ UNCHANGED <<l_word, l_pc, mainVars, padVars>>

LeetReturn ==
  /\ l_pc = "loop" /\ l_k > Len(leet_map)
  /\ l_pc' = "return"
  /\ UNCHANGED <<l_word, l_k, variations, mainVars, padVars>>

LeetNext == LeetStep \/ LeetReturn

SpecLeet == LeetInit /\ [][LeetNext]_vars

(***************************************************************************)
(* Properties                                                              *)
(***************************************************************************)
\* The 35-character alphabet: digits 1-9 and uppercase letters A-Z
Alphabet ==
  {"1","2","3","4","5","6","7","8","9"} \cup
  {"A","B","C","D","E","F","G","H","I","J","K","L","M","N","O","P","Q","R",
   "S","T","U","V","W","X","Y","Z"}

\* The word list without the words whose normalized form is longer than 8
WithoutOverLength(ws) == SelectSeq(ws, LAMBDA w : Len(Normalize(w)) <= 8)

\* The word list without the words whose normalized form is empty
WithoutEmpty(ws) == SelectSeq(ws, LAMBDA w : Normalize(w) # <<>>)

\* C1: every line written to the output file has length exactly 8 and every
\* one of its characters is in the 35-character alphabet, whatever the word
\* list contains.
C1_LinesValid ==
  \A r \in 1..2 : \A k \in DOMAIN written[r] :
    /\ Len(written[r][k]) = 8
    /\ \A c \in Range(written[r][k]) : c \in Alphabet

\* C1 witness: a list with a lowercase word and a word of zeros has been
\* written, and the filter had strings to remove.
C1_Witness ==
  /\ pc = "done"
  /\ joker \in Range(words) /\ ZeroZero \in Range(words)
  /\ \E s \in all_seeds : Len(s) = 8 /\ \E c \in Range(s) : c \notin Alphabet
  /\ Len(written[run]) > 0

\* C2: the lines written are strictly ascending in lexicographic order, so no
\* line occurs twice, and the returned count is the number of lines written.
C2_SortedCount ==
  \A r \in 1..2 :
    /\ \A k \in 1..(Len(written[r]) - 1) : LexLess(written[r][k], written[r][k + 1])
    /\ Cardinality(Range(written[r])) = Len(written[r])
    /\ returned[r] # -1 => returned[r] = Len(written[r])

\* C2 witness: a file of more lines than the fixed patterns has been written
\* from a set whose iteration order was not the sorted one.
C2_Witness ==
  /\ pc = "done"
  /\ Len(written[run]) > Len(number_patterns)
  /\ returned[run] = Len(written[run])
  /\ FilterValid(all_seeds, hashseed) # written[run]

\* C3: two executions on the same word list write the same sequence of
\* lines.
C3_SameOutput ==
  (run = 2 /\ pc = "done") => written[1] = written[2]

\* C5: every fixed numeric pattern is in the output for every word list,
\* the empty one included, so the returned count is strictly positive.
C5_PatternsPresent ==
  pc = "done" =>
    /\ \A k \in DOMAIN number_patterns :
         number_patterns[k] \in Range(written[run])
    /\ <<"6","9","6","9","6","9","6","9">> \in Range(written[run])
    /\ returned[run] > 0

\* C5 witness: the empty word list has been processed and its file holds
\* "69696969".
C5_Witness ==
  /\ pc = "done" /\ words = <<>>
  /\ <<"6","9","6","9","6","9","6","9">> \in Range(written[run])
  /\ returned[run] = Len(number_patterns)

\* C6 as claimed: the output equals the output for the list with every
\* over-length word removed, and a list of over-length words only yields
\* exactly the fixed numeric patterns.
C6_OverLengthRemoved ==
  pc = "done" =>
    /\ written[run] =
         generate_word_combinations(WithoutOverLength(words), hashseed)
    /\ WithoutOverLength(words) = <<>> =>
         Range(written[run]) = Range(number_patterns)

\* C6 as amended: every line of the output is a line of the output for the
\* list without its over-length words (same iteration order of the sets),
\* the two outputs are equal when the list has at most 50 words, and a list
\* of over-length words only yields exactly the fixed numeric patterns.
C6_OverLengthContributesNothing ==
  pc = "done" =>
    LET without == generate_word_combinations(WithoutOverLength(words), hashseed)
    IN  /\ Range(written[run]) \subseteq Range(without)
        /\ Len(words) <= 50 => written[run] = without
        /\ WithoutOverLength(words) = <<>> =>
             Range(written[run]) = Range(number_patterns)

\* C6 witness: a list with an over-length word and another word has been
\* written.
C6_Witness ==
  /\ pc = "done"
  /\ DISCHARGE \in Range(words)
  /\ WithoutOverLength(words) # <<>>
  /\ Len(written[run]) > Len(number_patterns)

\* C7: the normalized form of every word that normalizes to exactly 8
\* characters is in the output, and a word that normalizes to the empty
\* string contributes nothing.
C7_NormalizedEight ==
  pc = "done" =>
    /\ \A k \in DOMAIN words :
         Len(Normalize(words[k])) = 8 =>
           Normalize(words[k]) \in Range(written[run])
    /\ written[run] = generate_word_combinations(WithoutEmpty(words), hashseed)

\* C4 as claimed: for a normalized word w of length 1..7 the returned set
\* holds w + last * needed, first * needed + w, w + '1' * needed and
\* w + '9' * needed.
C4_RepetitionPresent ==
  (p_pc = "return" /\ Len(word) \in 1..7) =>
    LET needed == 8 - Len(word)
    IN  /\ word \o Repeat(word[Len(word)], needed) \in results
        /\ Repeat(word[1], needed) \o word \in results
        /\ word \o Repeat("1", needed) \in results
        /\ word \o Repeat("9", needed) \in results

\* C4 as amended: the same, for the words whose candidate set before the
\* limit has at most 200 elements, which is the case of every normalized
\* word of length 4 to 7; for "GAME" the set holds "GAME1111", "GAME9999"
\* and "GAMEEEEE".
C4_RepetitionPresentUnderCap ==
  /\ (p_pc = "return" /\ Len(word) \in 4..7) =>
       Cardinality(PaddingCandidates(word)) <= 200
  /\ (p_pc = "return" /\ Len(word) \in 1..7
        /\ Cardinality(PaddingCandidates(word)) <= 200) =>
       LET needed == 8 - Len(word)
       IN  /\ word \o Repeat(word[Len(word)], needed) \in results
           /\ Repeat(word[1], needed) \o word \in results
           /\ word \o Repeat("1", needed) \in results
           /\ word \o Repeat("9", needed) \in results
  /\ (p_pc = "return" /\ p_arg = GAME) =>
       {<<"G","A","M","E","1","1","1","1">>, <<"G","A","M","E","9","9","9","9">>,
        <<"G","A","M","E","E","E","E","E">>, <<"G","G","G","G","G","A","M","E">>}
         \subseteq results

\* C4 witness: generate_padded_combinations("GAME") has returned a set that
\* holds "GAMEEEEE".
C4_Witness ==
  /\ p_pc = "return" /\ p_arg = GAME
  /\ <<"G","A","M","E","E","E","E","E">> \in results

\* C8: the returned set has at most 200 elements, is a subset of the
\* candidates before the limit, and holds only strings of length 8 over the
\* alphabet.
C8_CappedSubset ==
  p_pc = "return" =>
    LET w == Normalize(p_arg)
        uncapped == IF w = <<>> \/ Len(w) > 8 THEN {}
                    ELSE IF Len(w) = 8 THEN {w}
                    ELSE PaddingCandidates(w)
    IN  /\ Cardinality(results) <= 200
        /\ results \subseteq uncapped
        /\ \A s \in results : Len(s) = 8 /\ Range(s) \subseteq Alphabet

\* C8 witness: a call whose candidates exceeded 200 has returned exactly
\* 200 of them.
C8_Witness ==
  /\ p_pc = "return"
  /\ Len(word) \in 1..7
  /\ Cardinality(PaddingCandidates(word)) > 200
  /\ Cardinality(results) = 200

\* C10: for a normalized word of length 4 to 7 the candidates number fewer
\* than 200, so the returned set is all of them under every hash seed; for
\* each length 1 to 3 there is a word whose candidates exceed 200, and the
\* set returned for such a word changes with the hash seed.
C10_CapOnlyShortWords ==
  /\ (p_pc = "return" /\ Len(word) \in 4..7) =>
       /\ Cardinality(PaddingCandidates(word)) < 200
       /\ results = PaddingCandidates(word)
       /\ \A s \in HashSeeds : generate_padded_combinations(p_arg, s) = results
  /\ (p_pc = "return" /\ Len(word) \in 1..3
        /\ Cardinality(PaddingCandidates(word)) > 200) =>
       /\ results # PaddingCandidates(word)
       /\ \E s \in HashSeeds : generate_padded_combinations(p_arg, s) # results
  /\ \A n \in 1..3 : \E w \in PadWords :
       /\ Len(Normalize(w)) = n
       /\ Cardinality(PaddingCandidates(Normalize(w))) > 200

\* C10 witness: a call for a one-letter word has returned fewer strings than
\* its candidates.
C10_Witness ==
  /\ p_pc = "return"
  /\ Len(word) = 1
  /\ Cardinality(PaddingCandidates(word)) > 200
  /\ results # PaddingCandidates(word)

\* C9: the list returned for a word of alphabet characters is the word, then
\* one variant per letter of A->4, E->3, I->1, S->5, T->7, G->6, B->8, L->1
\* that occurs in it, each replacing every occurrence of that letter and
\* nothing else; no variant has a character outside the alphabet (O->0 is
\* never applied) and every variant has the word's length.
C9_LeetVariations ==
  l_pc = "return" =>
    LET claimed == << <<"A","4">>, <<"E","3">>, <<"I","1">>, <<"S","5">>,
                      <<"T","7">>, <<"G","6">>, <<"B","8">>, <<"L","1">> >>
        present == SelectSeq(claimed, LAMBDA m : m[1] \in Range(l_word))
    IN  /\ variations[1] = l_word
        /\ Len(variations) = 1 + Len(present)
        /\ \A j \in DOMAIN present :
             variations[j + 1] =
               [q \in DOMAIN l_word |->
                  IF l_word[q] = present[j][1] THEN present[j][2] ELSE l_word[q]]
        /\ \A j \in DOMAIN variations :
             /\ Len(variations[j]) = Len(l_word)
             /\ Range(variations[j]) \subseteq Alphabet

\* C9 witness: the variations of "OMEGALUL" (letters A, E, G, L and O) have
\* been returned: the word and four variants.
C9_Witness ==
  /\ l_pc = "return" /\ l_word = OMEGALUL
  /\ Len(variations) = 5

=============================================================================
